---------------------------- MODULE Spec2Model ----------------------------
(***************************************************************************)
(* BAlertX24_Interface: the streaming session manager of the B-Alert X24   *)
(* device adapter (BAlertX24_Interface.py).                                *)
(*                                                                         *)
(* One interface object owns a ZMQ PULL socket.  A driver process pushes   *)
(* JSON messages into it; the caller's thread calls start_stream,          *)
(* stop_stream and process_frames.  The caller is one thread, so at most   *)
(* one method runs at a time; the driver runs concurrently, so a message   *)
(* may arrive between any two receives of a running process_frames loop.   *)
(*                                                                         *)
(* Python semantics that decide the behaviour are modelled as they are:    *)
(* reading a name that nothing binds raises (NameError, AttributeError),   *)
(* subscripting a dict with a missing key raises KeyError, and an          *)
(* exception that no handler of the method catches ends the method and     *)
(* reaches the caller.                                                     *)
(***************************************************************************)
EXTENDS Integers, Sequences, FiniteSets, TLC

\* ------------------------------------------------------------------ bounds
\* how many messages the driver sends in one run
MaxSends == 2
\* how many calls (start_stream, stop_stream, process_frames) the caller
\* makes in one run
MaxCalls == 4

\* ------------------------------------------------------- numpy-like arrays
\* An n-dimensional array: its shape and its elements in row-major order.
\* A Python scalar is the array of shape <<>>.
Arr(shape, data) == [shape |-> shape, data |-> data]

Scalar(v) == Arr(<<>>, <<v>>)

\* the Python list [] (what process_frames returns when nothing was stacked)
EmptyList == Arr(<<0>>, <<>>)

RECURSIVE Prod(_)
Prod(s) == IF s = <<>> THEN 1 ELSE Head(s) * Prod(Tail(s))

RECURSIVE ConcatData(_)
ConcatData(arrs) ==
    IF arrs = <<>> THEN <<>> ELSE Head(arrs).data \o ConcatData(Tail(arrs))

\* np.array(list) cannot build a rectangular array from items of different
\* shapes
Ragged(arrs) == \E i, j \in 1..Len(arrs) : arrs[i].shape # arrs[j].shape

\* np.array(list) of equally shaped items: a new leading axis of length
\* len(list)
NpArray(arrs) ==
    IF arrs = <<>> THEN EmptyList
    ELSE Arr(<<Len(arrs)>> \o arrs[1].shape, ConcatData(arrs))

Ndim(a) == Len(a.shape)

\* the slice at the last index of the lead axis, not at index 0
Transpose210Last(a) ==
    LET T == a.shape[1]
        C == a.shape[2]
        L == a.shape[3]
    IN  Arr(<<C, T>>,
            [i \in 1..(C * T) |->
                LET c == (i - 1) \div T
                    t == (i - 1) % T
                IN  a.data[(t * C + c) * L + L]])

\* a.transpose(2, 1, 0)[0] of a 3-D array of shape (T, C, L):
\* the (L, C, T) view at index 0 of its first axis, R[c][t] = a[t][c][0]
Transpose210First(a) ==
    LET T == a.shape[1]
        C == a.shape[2]
        L == a.shape[3]
    IN  Arr(<<C, T>>,
            [i \in 1..(C * T) |->
                LET c == (i - 1) \div T
                    t == (i - 1) % T
                IN  a.data[(t * C + c) * L + 1]])

\* a.transpose(1, 0) of a 2-D array of shape (T, C): R[c][t] = a[t][c]
Transpose10(a) ==
    LET T == a.shape[1]
        C == a.shape[2]
    IN  Arr(<<C, T>>,
            [i \in 1..(C * T) |->
                LET c == (i - 1) \div T
                    t == (i - 1) % T
                IN  a.data[t * C + c + 1]])

\* a[:, 0] is an IndexError unless a has a second axis with an index 0
FirstColumnFails(a) == Ndim(a) < 2 \/ a.shape[2] = 0

\* a[:, 0]: index 0 of the second axis, for every index of the first
FirstColumn(a) ==
    LET N    == a.shape[1]
        K    == a.shape[2]
        rest == Prod(SubSeq(a.shape, 3, Len(a.shape)))
    IN  Arr(<<N>> \o SubSeq(a.shape, 3, Len(a.shape)),
            [i \in 1..(N * rest) |->
                LET n == (i - 1) \div rest
                    k == (i - 1) % rest
                IN  a.data[n * K * rest + k + 1]])

\* ------------------------------------------------------------ wire messages
\* What one recv_json can hand to process_frames.  json is FALSE for a
\* payload that is not JSON; keys is the set of keys of the decoded object;
\* t, frame, timestamp and message are the values under the keys that are
\* present.  sent_in_session and sent_after_stops are not on the wire: they
\* record how many start_stream and stop_stream calls had been made when the
\* driver sent the message.
Message(json, keys, t, frame, timestamp, message, sess, stops) ==
    [json |-> json, keys |-> keys, t |-> t, frame |-> frame,
     timestamp |-> timestamp, message |-> message,
     sent_in_session |-> sess, sent_after_stops |-> stops]

Kinds == {"d_num", "d_vec", "d_mat", "e", "x", "no_tag", "no_field", "junk"}

DataKeys == {"t", "frame", "timestamp"}

\* The n-th message of the driver, of each kind.  Frames and timestamps
\* grow with n, so that two data messages never carry the same values.
\*   d_num: frame [f1, f2],         timestamp a number
\*   d_vec: frame [f1, f2],         timestamp [ts]
\*   d_mat: frame [[1,2],[3,4]]+.., timestamp [[ts],[ts+1]]
\*   e: an event, x: an unknown tag, no_tag: no "t" key,
\*   no_field: a data message without "timestamp", junk: not JSON
Wire(kind, n, sess, stops) ==
    LET f  == 10 * (n - 1)
        ts == 100 + 2 * (n - 1)
        M(json, keys, t, frame, timestamp, message) ==
            Message(json, keys, t, frame, timestamp, message, sess, stops)
    IN  CASE kind = "d_num" ->
               M(TRUE, DataKeys, "d", Arr(<<2>>, <<f + 1, f + 2>>),
                 Scalar(ts), "")
          [] kind = "d_vec" ->
               M(TRUE, DataKeys, "d", Arr(<<2>>, <<f + 1, f + 2>>),
                 Arr(<<1>>, <<ts>>), "")
          [] kind = "d_mat" ->
               M(TRUE, DataKeys, "d",
                 Arr(<<2, 2>>, <<f + 1, f + 2, f + 3, f + 4>>),
                 Arr(<<2, 1>>, <<ts, ts + 1>>), "")
          [] kind = "e" ->
               M(TRUE, {"t", "message"}, "e", EmptyList, EmptyList, "fault")
          [] kind = "x" ->
               M(TRUE, {"t"}, "x", EmptyList, EmptyList, "")
          [] kind = "no_tag" ->
               M(TRUE, {"frame", "timestamp"}, "",
                 Arr(<<2>>, <<f + 1, f + 2>>), Arr(<<1>>, <<ts>>), "")
          [] kind = "no_field" ->
               M(TRUE, {"t", "frame"}, "d",
                 Arr(<<2>>, <<f + 1, f + 2>>), EmptyList, "")
          [] OTHER ->
               M(FALSE, {}, "", EmptyList, EmptyList, "")

\* the t-th data message of a driver whose frames have the shape fs and
\* whose timestamps have the shape tss; no two elements of its frames, and
\* no two of its timestamps, are equal
ShapedData(fs, tss, t) ==
    Message(TRUE, DataKeys, "d",
            Arr(fs, [i \in 1..Prod(fs) |-> 10 * t + i]),
            Arr(tss, [i \in 1..Prod(tss) |-> 100 + 10 * t + i]),
            "", 1, 0)

\* a message process_frames can route: JSON, tagged, with the fields of
\* its tag
IsData(m)  == m.json /\ "t" \in m.keys /\ m.t = "d"
                     /\ {"frame", "timestamp"} \subseteq m.keys
IsEvent(m) == m.json /\ "t" \in m.keys /\ m.t = "e" /\ "message" \in m.keys
\* a message the wire schema does not allow: not JSON, no tag, or a field
\* of its tag missing
IsMalformed(m) ==
    \/ ~m.json
    \/ "t" \notin m.keys
    \/ m.t = "d" /\ ~({"frame", "timestamp"} \subseteq m.keys)
    \/ m.t = "e" /\ "message" \notin m.keys

\* ---------------------------------------------------------------- state
VARIABLES
    life,               \* "new", "ready" (constructed), "raised" (__init__
                        \* raised), "deleted" (__del__ has run)
    port,               \* self.port: None until the socket is bound
    closes,             \* how often the socket and its context were released
    terminate_event,    \* self.terminate_event: None or the Event of a start
    events_set,         \* the Events whose flag is set
    device_process,     \* self.device_process
    device_available,   \* self.device_available
    channel,            \* the messages queued in self.socket, oldest first
    pc,                 \* "idle", or "poll" inside the loop of process_frames
    frames,             \* local of process_frames
    timestamps,         \* local of process_frames
    messages,           \* local of process_frames
    ret,                \* how the last call ended and what it returned
    call,               \* the running or last call: what it found and did
    sent,               \* messages the driver has sent
    starts,             \* start_stream calls made
    stops,              \* stop_stream calls made by the caller or by process_frames
    calls,              \* calls the caller has made
    stops_at_start,     \* the value of stops at the last start_stream call
    delivered           \* what the process_frames calls have returned so far

objVars  == <<terminate_event, events_set, device_process, device_available>>
sockVars == <<port, closes>>
pollVars == <<frames, timestamps, messages>>
histVars == <<sent, starts, stops, calls, stops_at_start, delivered>>
vars == <<life, port, closes, terminate_event, events_set, device_process, device_available,
          channel, pc, frames, timestamps, messages, ret, call,
          sent, starts, stops, calls, stops_at_start, delivered>>

\* None, as the value of self.terminate_event and self.device_process
None == 0

\* The instance attributes the methods of the class assign (lines 34-47),
\* and those the base class is given to keep.  self.license_path and
\* self.term_event are read by start_stream and stop_stream and are not
\* among them: line 36 stores the license path as self.stream_path.
InstanceAttrs == {"stream_name", "stream_type", "stream_path", "ch_names",
                  "context", "socket", "port", "device_process",
                  "terminate_event", "device_available",
                  "device_nominal_sampling_rate"}

\* reading self.<name> raises AttributeError unless the attribute exists
HasAttr(name) == name \in InstanceAttrs

\* The session state of the spec, read off the fields of the object:
\* Streaming from the moment a start_stream has allocated a termination
\* signal until that signal is set; Idle before the first start_stream and
\* once the signal is set.
SessionState ==
    IF terminate_event = None \/ terminate_event \in events_set
    THEN "Idle" ELSE "Streaming"

\* the session fields, as one value
Session == [terminate_event |-> terminate_event, events_set |-> events_set,
            device_process |-> device_process,
            device_available |-> device_available, state |-> SessionState]

\* how a call ended: raised is "none" for a normal return, else the
\* exception that reached the caller; a raising call returns no value
Returned(op, f, ts, msgs) ==
    [op |-> op, raised |-> "none", frames |-> f, timestamps |-> ts,
     messages |-> msgs]
Raised(op, exc) ==
    [op |-> op, raised |-> exc, frames |-> EmptyList,
     timestamps |-> EmptyList, messages |-> <<>>]
Running(op) == Raised(op, "running")

\* the record of a call: the session it found, the messages it has taken
\* from the queue, the receives it has made, the stop_stream calls it has
\* made itself, and whether the driver sent while it ran
Call(op, pre, taken, recvs, inner_stops, concurrent) ==
    [op |-> op, pre |-> pre, taken |-> taken,
     recvs |-> recvs, inner_stops |-> inner_stops, concurrent |-> concurrent]

NoCall == Call("none", [terminate_event |-> None, events_set |-> {},
                        device_process |-> None, device_available |-> FALSE,
                        state |-> "Idle"], <<>>, 0, 0, FALSE)

Init ==
    /\ life = "new"
    /\ port = None
    /\ closes = 0
    /\ terminate_event = None
    /\ events_set = {}
    /\ device_process = None
    /\ device_available = FALSE
    /\ channel = <<>>
    /\ pc = "idle"
    /\ frames = <<>>
    /\ timestamps = <<>>
    /\ messages = <<>>
    /\ ret = Returned("none", EmptyList, EmptyList, <<>>)
    /\ call = NoCall
    /\ sent = 0
    /\ starts = 0
    /\ stops = 0
    /\ calls = 0
    /\ stops_at_start = 0
    /\ delivered = <<>>

\* ------------------------------------------------------------- operations
\* the port the operating system picks for bind("tcp://*:0") (lines 41-42)
EphemeralPort == 49152

\* __init__ (lines 18-47).  platform is what platform.system() returns;
\* license_global says whether the module-level name _license_path, which
\* line 36 reads and this file never binds, is bound in the module's
\* namespace when the constructor runs.  Only a constructor that returns
\* leaves an object whose methods can be called.
Construct(platform, license_global) ==
    /\ life = "new"
    /\ IF platform # "Windows"
       THEN /\ life' = "raised"
            /\ ret' = Raised("init", "EnvironmentError")
       ELSE IF ~license_global
       THEN /\ life' = "raised"
            /\ ret' = Raised("init", "NameError")
       ELSE /\ life' = "ready"
            /\ ret' = Returned("init", EmptyList, EmptyList, <<>>)
    /\ port' = IF platform = "Windows" /\ license_global
               THEN EphemeralPort ELSE None
    /\ closes' = closes
    /\ terminate_event' = None
    /\ events_set' = {}
    /\ device_process' = None
    /\ device_available' = FALSE
    /\ call' = Call("init", Session, <<>>, 0, 0, FALSE)
    /\ UNCHANGED <<channel, pc, pollVars, histVars>>

\* The driver (or any peer connected to the bound port) pushes its next
\* message; it runs beside the caller's thread, also while process_frames
\* is inside its loop.
DriverSend(kind) ==
    /\ life = "ready"
    /\ sent < MaxSends
    /\ channel' = Append(channel, Wire(kind, sent + 1, starts, stops))
    /\ sent' = sent + 1
    /\ call' = IF pc = "poll" THEN [call EXCEPT !.concurrent = TRUE] ELSE call
    /\ UNCHANGED <<life, sockVars, objVars, pc, pollVars, ret, starts, stops,
                   calls, stops_at_start, delivered>>

\* a start_stream that hands out the signal of the first session again
NewEvent_Reused(n) == 1

\* the Event() that the n-th start_stream call allocates: a new object,
\* its flag not set
NewEvent(n) == n

\* start_stream (lines 49-53): allocates the termination signal, builds the
\* argument list and reads self.license_path.  No statement launches a
\* process or assigns self.device_process.
StartStreamRaises == IF HasAttr("license_path") THEN "none" ELSE "AttributeError"

\* a start_stream that claims availability itself
StartStream_SetsAvailable ==
    /\ life = "ready"
    /\ pc = "idle"
    /\ calls < MaxCalls
    /\ calls' = calls + 1
    /\ terminate_event' = NewEvent(starts + 1)
    /\ device_available' = TRUE
    /\ ret' = Raised("start", StartStreamRaises)
    /\ call' = Call("start", Session, <<>>, 0, 0, FALSE)
    /\ starts' = starts + 1
    /\ stops_at_start' = stops
    /\ UNCHANGED <<life, sockVars, events_set, device_process,
                   channel, pc, pollVars, sent, stops, delivered>>

StartStream ==
    /\ life = "ready"
    /\ pc = "idle"
    /\ calls < MaxCalls
    /\ calls' = calls + 1
    /\ terminate_event' = NewEvent(starts + 1)
    /\ ret' = IF StartStreamRaises = "none"
              THEN Returned("start", EmptyList, EmptyList, <<>>)
              ELSE Raised("start", StartStreamRaises)
    /\ call' = Call("start", Session, <<>>, 0, 0, FALSE)
    /\ starts' = starts + 1
    /\ stops_at_start' = stops
    /\ UNCHANGED <<life, sockVars, events_set, device_process, device_available,
                   channel, pc, pollVars, sent, stops, delivered>>

\* stop_stream (lines 56-65): its first statement, line 57, reads
\* self.term_event, which is no attribute of the object, so the call ends
\* there with AttributeError: the signal is not set, availability is not
\* written and the receive loop of lines 61-65 is not entered.
StopStreamRaises == IF HasAttr("term_event") THEN "none" ELSE "AttributeError"

StopStream ==
    /\ life = "ready"
    /\ pc = "idle"
    /\ calls < MaxCalls
    /\ calls' = calls + 1
    /\ StopStreamRaises # "none"
    /\ ret' = Raised("stop", StopStreamRaises)
    /\ call' = Call("stop", Session, <<>>, 0, 0, FALSE)
    /\ stops' = stops + 1
    /\ UNCHANGED <<life, sockVars, objVars, channel, pc, pollVars, sent, starts,
                   stops_at_start, delivered>>

\* process_frames, entry (lines 70-72): the three empty lists
PollBegin ==
    /\ life = "ready"
    /\ pc = "idle"
    /\ calls < MaxCalls
    /\ pc' = "poll"
    /\ frames' = <<>>
    /\ timestamps' = <<>>
    /\ messages' = <<>>
    /\ ret' = Running("poll")
    /\ call' = Call("poll", Session, <<>>, 0, 0, FALSE)
    /\ calls' = calls + 1
    /\ UNCHANGED <<life, sockVars, objVars, channel, sent, starts, stops,
                   stops_at_start, delivered>>

\* The exception np.array(timestamps)[:, 0] raises when the timestamps have
\* different shapes: numpy 1.24 and later refuse to build the array
\* (ValueError); earlier ones build a 1-D array of objects, which has no
\* second axis (IndexError).
RaggedTimestampErrors == {"ValueError", "IndexError"}

\* The frames the normalization returns (lines 87, 90-98), for a stacked
\* array fa
Matrix(fa) ==
    IF Ndim(fa) = 3 THEN Transpose210First(fa)
    ELSE IF Ndim(fa) = 2 THEN Transpose10(fa)
    ELSE fa

\* Normalize without the guard of line 86: the arrays are built and sliced
\* also when no frame was collected
Normalize_Unguarded(f, ts, msgs) ==
    IF Ragged(f)
    THEN {Raised("poll", "ValueError")}
    ELSE IF Ragged(ts)
    THEN {Raised("poll", e) : e \in RaggedTimestampErrors}
    ELSE IF FirstColumnFails(NpArray(ts))
    THEN {Raised("poll", "IndexError")}
    ELSE {Returned("poll", Matrix(NpArray(f)), FirstColumn(NpArray(ts)), msgs)}

\* process_frames after its loop (lines 86-99): the outcomes of
\* normalizing what the loop collected
Normalize(f, ts, msgs) ==
    IF Len(f) > 0
    THEN IF Ragged(f)
         THEN {Raised("poll", "ValueError")}
         ELSE IF Ndim(NpArray(f)) = 3 /\ NpArray(f).shape[3] = 0
         THEN {Raised("poll", "IndexError")}
         ELSE IF Ragged(ts)
         THEN {Raised("poll", e) : e \in RaggedTimestampErrors}
         ELSE IF FirstColumnFails(NpArray(ts))
         THEN {Raised("poll", "IndexError")}
         ELSE {Returned("poll", Matrix(NpArray(f)), FirstColumn(NpArray(ts)),
                        msgs)}
    ELSE {Returned("poll", EmptyList, EmptyList, msgs)}

\* What one recv_json(flags=NOBLOCK) and the statements of lines 76-81 do
\* with the message m at the head of the queue: the exception that leaves
\* the loop ("none" when the loop goes on), and the lists afterwards.  Only
\* zmq.Again is caught (line 82); a payload that is not JSON raises inside
\* recv_json, a missing key raises KeyError, and an event message appends
\* its text and then calls stop_stream (line 78).
Route(m, f, ts, msgs) ==
    IF ~m.json
    THEN [raised |-> "JSONDecodeError", frames |-> f, timestamps |-> ts,
          messages |-> msgs, stop_called |-> FALSE]
    ELSE IF "t" \notin m.keys
    THEN [raised |-> "KeyError", frames |-> f, timestamps |-> ts,
          messages |-> msgs, stop_called |-> FALSE]
    ELSE IF m.t = "e"
    THEN IF "message" \notin m.keys
         THEN [raised |-> "KeyError", frames |-> f, timestamps |-> ts,
               messages |-> msgs, stop_called |-> FALSE]
         ELSE [raised |-> StopStreamRaises, frames |-> f, timestamps |-> ts,
               messages |-> Append(msgs, m.message), stop_called |-> TRUE]
    ELSE IF m.t = "d"
    THEN IF "frame" \notin m.keys
         THEN [raised |-> "KeyError", frames |-> f, timestamps |-> ts,
               messages |-> msgs, stop_called |-> FALSE]
         ELSE IF "timestamp" \notin m.keys
         THEN [raised |-> "KeyError", frames |-> Append(f, m.frame),
               timestamps |-> ts, messages |-> msgs, stop_called |-> FALSE]
         ELSE [raised |-> "none", frames |-> Append(f, m.frame),
               timestamps |-> Append(ts, m.timestamp), messages |-> msgs,
               stop_called |-> FALSE]
    ELSE [raised |-> "none", frames |-> f, timestamps |-> ts,
          messages |-> msgs, stop_called |-> FALSE]

\* a receive that hands over the newest message of the queue, not the
\* oldest
Recv_NewestFirst(ch) ==
    [msg |-> ch[Len(ch)], rest |-> SubSeq(ch, 1, Len(ch) - 1)]

\* recv_json on a queue that holds a message (line 75): the PULL socket
\* hands over the oldest message and keeps the others in their order
Recv(ch) == [msg |-> Head(ch), rest |-> Tail(ch)]

\* a pass of the loop that marks the device available on a data message
PollReceive_MarksAvailable ==
    /\ pc = "poll"
    /\ channel # <<>>
    /\ LET m == Recv(channel).msg
           r == Route(m, frames, timestamps, messages)
       IN  /\ channel' = Recv(channel).rest
           /\ frames' = r.frames
           /\ timestamps' = r.timestamps
           /\ messages' = r.messages
           /\ device_available' = (device_available \/ IsData(m))
           /\ call' = [call EXCEPT !.taken = Append(@, m),
                                   !.recvs = @ + 1,
                                   !.inner_stops =
                                       IF r.stop_called THEN @ + 1 ELSE @]
           /\ stops' = IF r.stop_called THEN stops + 1 ELSE stops
           /\ IF r.raised = "none"
              THEN UNCHANGED <<pc, ret>>
              ELSE /\ pc' = "idle"
                   /\ ret' = Raised("poll", r.raised)
    /\ UNCHANGED <<life, sockVars, terminate_event, events_set,
                   device_process, sent, starts, calls, stops_at_start,
                   delivered>>

\* process_frames, one pass of the loop (lines 73-84) that finds a message
PollReceive ==
    /\ pc = "poll"
    /\ channel # <<>>
    /\ LET m == Recv(channel).msg
           r == Route(m, frames, timestamps, messages)
       IN  /\ channel' = Recv(channel).rest
           /\ frames' = r.frames
           /\ timestamps' = r.timestamps
           /\ messages' = r.messages
           /\ call' = [call EXCEPT !.taken = Append(@, m),
                                   !.recvs = @ + 1,
                                   !.inner_stops =
                                       IF r.stop_called THEN @ + 1 ELSE @]
           /\ stops' = IF r.stop_called THEN stops + 1 ELSE stops
           /\ IF r.raised = "none"
              THEN UNCHANGED <<pc, ret>>
              ELSE /\ pc' = "idle"
                   /\ ret' = Raised("poll", r.raised)
    /\ UNCHANGED <<life, sockVars, objVars, sent, starts, calls, stops_at_start,
                   delivered>>

\* The samples of a returned batch, in the order of the batch: for each
\* index of the first axis of the timestamps, the first timestamp and the
\* first frame value there (the first row of a matrix, the elements of a
\* 1-D array).  A call that raised returns none.
Samples(r) ==
    IF r.raised # "none" \/ r.frames = EmptyList THEN <<>>
    ELSE LET N == r.timestamps.shape[1]
             K == Len(r.timestamps.data) \div N
         IN  [i \in 1..N |->
                 [timestamp |-> r.timestamps.data[(i - 1) * K + 1],
                  value |-> r.frames.data[i]]]

\* a pass that finds the queue empty and does not leave the loop
PollReturn_NoBreak ==
    /\ pc = "poll"
    /\ channel = <<>>
    /\ UNCHANGED vars

\* process_frames, the pass that finds the queue empty: zmq.Again ends the
\* loop (lines 82-84) and lines 86-99 return
PollReturn ==
    /\ pc = "poll"
    /\ channel = <<>>
    /\ pc' = "idle"
    /\ ret' \in Normalize(frames, timestamps, messages)
    /\ call' = [call EXCEPT !.recvs = @ + 1]
    /\ delivered' = delivered \o Samples(ret')
    /\ UNCHANGED <<life, sockVars, objVars, channel, pollVars, sent, starts, stops,
                   calls, stops_at_start>>

\* is_device_available (lines 102-103)
IsDeviceAvailable == device_available

\* __del__ without the two releases
Del_Leaks ==
    /\ life = "ready"
    /\ pc = "idle"
    /\ life' = "deleted"
    /\ ret' = Returned("del", EmptyList, EmptyList, <<>>)
    /\ call' = Call("del", Session, <<>>, 0, 0, FALSE)
    /\ UNCHANGED <<sockVars, objVars, channel, pc, pollVars, histVars>>

\* __del__ (lines 106-113), which the interpreter runs once, when the last
\* reference to the object goes and no method is running: it closes the
\* socket, which drops what is queued in it, and terminates the context.
\* On an object whose __init__ raised before line 40, self.socket does not
\* exist: line 112 raises AttributeError and nothing is released, as
\* nothing was bound.
Del ==
    /\ life \in {"ready", "raised"}
    /\ pc = "idle"
    /\ life' = "deleted"
    /\ IF life = "ready"
       THEN /\ closes' = closes + 1
            /\ channel' = <<>>
            /\ ret' = Returned("del", EmptyList, EmptyList, <<>>)
       ELSE /\ closes' = closes
            /\ channel' = channel
            /\ ret' = Raised("del", "AttributeError")
    /\ call' = Call("del", Session, <<>>, 0, 0, FALSE)
    /\ UNCHANGED <<port, objVars, pc, pollVars, histVars>>

Next ==
    \/ \E platform \in {"Windows", "Linux"}, license_global \in BOOLEAN :
          Construct(platform, license_global)
    \/ \E kind \in Kinds : DriverSend(kind)
    \/ StartStream
    \/ StopStream
    \/ PollBegin
    \/ PollReceive
    \/ PollReturn
    \/ Del

Spec == Init /\ [][Next]_vars

\* ------------------------------------------------------ what a call shows
\* the last call was process_frames and it has ended
PollDone == call.op = "poll" /\ pc = "idle"

\* the driver sent nothing while the last call ran
Quiet == ~call.concurrent

RECURSIVE FramesOf(_)
FramesOf(ms) ==
    IF ms = <<>> THEN <<>>
    ELSE IF IsData(Head(ms)) THEN <<Head(ms).frame>> \o FramesOf(Tail(ms))
    ELSE FramesOf(Tail(ms))

RECURSIVE TimestampsOf(_)
TimestampsOf(ms) ==
    IF ms = <<>> THEN <<>>
    ELSE IF IsData(Head(ms))
    THEN <<Head(ms).timestamp>> \o TimestampsOf(Tail(ms))
    ELSE TimestampsOf(Tail(ms))

RECURSIVE TextsOf(_)
TextsOf(ms) ==
    IF ms = <<>> THEN <<>>
    ELSE IF IsEvent(Head(ms)) THEN <<Head(ms).message>> \o TextsOf(Tail(ms))
    ELSE TextsOf(Tail(ms))

\* the data messages of ms stack into a batch: equal frame shapes, and
\* timestamps that have a first column
Stackable(ms) ==
    /\ ~Ragged(FramesOf(ms))
    /\ ~Ragged(TimestampsOf(ms))
    /\ FramesOf(ms) # <<>> => ~FirstColumnFails(NpArray(TimestampsOf(ms)))

\* the batch that holds every data and event message of ms
BatchOf(ms) ==
    IF FramesOf(ms) = <<>>
    THEN Returned("poll", EmptyList, EmptyList, TextsOf(ms))
    ELSE Returned("poll", Matrix(NpArray(FramesOf(ms))),
                  FirstColumn(NpArray(TimestampsOf(ms))), TextsOf(ms))

\* m was sent by the driver of a session, before a stop_stream call that
\* came before the last start_stream call
Residue(m) == m.sent_in_session >= 1 /\ m.sent_after_stops < stops_at_start

\* ------------------------------------------------------------------ claims

\* C1: no data message sent by the driver of one session, before a stop()
\* that preceded the next start(), is in the batch a poll() of the later
\* session returns: stop() discards what is queued.
C1_NoResidueAfterStop ==
    (PollDone /\ ret.raised = "none") =>
        \A i \in 1..Len(call.taken) :
            IsData(call.taken[i]) => ~Residue(call.taken[i])

\* C2: a poll() of a Streaming session that runs with no concurrent send
\* and takes only data and event messages (the data stackable) goes on
\* until the queue is empty and returns a batch that holds the frame and
\* timestamp of every data message and the text of every event message it
\* took, in order: nothing it took is lost.
C2_PollAccumulatesEverythingTaken ==
    (/\ PollDone /\ Quiet
     /\ call.pre.state = "Streaming"
     /\ call.taken # <<>>
     /\ \A i \in 1..Len(call.taken) :
            IsData(call.taken[i]) \/ IsEvent(call.taken[i])
     /\ Stackable(call.taken))
    => (ret = BatchOf(call.taken) /\ call.recvs = Len(call.taken) + 1)

\* C3: a poll() begun in Streaming that receives an event message returns
\* its batch, with the event texts in messages, and has performed stop():
\* the termination signal is set, availability is false, the session is
\* Idle; a poll() begun in Streaming that receives no event message leaves
\* the session in Streaming.
C3_EventPollStopsAndReturns ==
    (PollDone /\ call.pre.state = "Streaming") =>
        IF TextsOf(call.taken) # <<>>
        THEN /\ ret.raised = "none"
             /\ ret.messages = TextsOf(call.taken)
             /\ terminate_event \in events_set
             /\ ~device_available
             /\ SessionState = "Idle"
        ELSE SessionState = "Streaming"

\* C4: a poll() of a Streaming session that takes N >= 1 data messages,
\* each with a numeric timestamp, and nothing else returns normally, and
\* its timestamps are the N numbers in arrival order.
C4_NumericTimestampsInOrder ==
    (/\ PollDone /\ Quiet
     /\ call.pre.state = "Streaming"
     /\ call.taken # <<>>
     /\ \A i \in 1..Len(call.taken) :
            IsData(call.taken[i]) /\ Ndim(call.taken[i].timestamp) = 0
     /\ ~Ragged(FramesOf(call.taken)))
    => /\ ret.raised = "none"
       /\ ret.timestamps =
              Arr(<<Len(call.taken)>>,
                  [i \in 1..Len(call.taken) |-> call.taken[i].timestamp.data[1]])

\* C5: a poll() issued in Idle fails with an error at once: it makes no
\* receive and returns no batch.
C5_PollFromIdleFails ==
    (call.op = "poll" /\ call.pre.state = "Idle") =>
        /\ pc = "idle"
        /\ ret.raised # "none"
        /\ call.recvs = 0

\* C6: start() takes effect only from Idle: a start() issued in Streaming,
\* with no stop() since the start() before it, changes neither the
\* termination signal nor any other session field, so the session never
\* has a second child.
C6_StartOnlyFromIdle ==
    [][(starts' = starts + 1 /\ SessionState = "Streaming")
           => UNCHANGED objVars]_vars

\* C7: stop() called in Idle raises no error and leaves the session fields
\* as they were.
C7_StopFromIdleIsNoOp ==
    (call.op = "stop" /\ call.pre.state = "Idle") =>
        (ret.raised = "none" /\ Session = call.pre)

\* C8: a start() that raises leaves the session fields as they were before
\* the call: no termination signal stays allocated, no child is live,
\* availability is false.
C8_FailedStartChangesNothing ==
    (call.op = "start" /\ ret.raised # "none") =>
        (Session = call.pre /\ ~device_available /\ device_process = None)

\* C9: a poll() of a Streaming session that takes a malformed message (not
\* JSON, no tag, or a field missing) beside stackable data messages raises
\* no error, sweeps on until the queue is empty, and returns every data
\* message it took.
C9_MalformedMessageIsDropped ==
    (/\ PollDone /\ Quiet
     /\ call.pre.state = "Streaming"
     /\ \E i \in 1..Len(call.taken) : IsMalformed(call.taken[i])
     /\ \A i \in 1..Len(call.taken) :
            IsMalformed(call.taken[i]) \/ IsData(call.taken[i])
     /\ Stackable(call.taken))
    => (ret = BatchOf(call.taken) /\ call.recvs = Len(call.taken) + 1)

\* C10: a poll() that finds the queue empty at its first receive makes that
\* one receive and returns three empty lists; it does not call stop() and
\* leaves the session fields as they were.
C10_EmptyPollReturnsEmptyBatch ==
    (PollDone /\ call.taken = <<>>) =>
        /\ call.recvs = 1
        /\ ret = Returned("poll", EmptyList, EmptyList, <<>>)
        /\ call.inner_stops = 0
        /\ Session = call.pre

\* C10 happens: a poll() of a started session has returned from an empty
\* queue
C10_Witness ==
    /\ PollDone /\ call.taken = <<>> /\ call.recvs = 1
    /\ call.pre.state = "Streaming"
    /\ ret.raised = "none"

\* the sample the driver's n-th message carries when it is a data message:
\* its first timestamp and its first frame value
SampleOf(n) ==
    [timestamp |-> Wire("d_vec", n, 0, 0).timestamp.data[1],
     value |-> Wire("d_vec", n, 0, 0).frame.data[1]]

\* C11: the samples the successive poll() calls have returned, in call
\* order, are samples of data messages the driver sent, in the order it
\* sent them, none of them twice: a later sample is always that of a later
\* message.
C11_NoReorderNoDuplicate ==
    \A i \in 1..Len(delivered) :
        /\ \E n \in 1..sent : delivered[i] = SampleOf(n)
        /\ \A j \in (i + 1)..Len(delivered) :
               \E n, k \in 1..sent :
                   /\ n < k
                   /\ delivered[i] = SampleOf(n)
                   /\ delivered[j] = SampleOf(k)

\* C11 happens: two poll() calls of a started session have each returned
\* one data message
C11_Witness ==
    /\ PollDone /\ ret.raised = "none"
    /\ call.pre.state = "Streaming"
    /\ Len(call.taken) = 1
    /\ Len(delivered) = 2

\* C13: is_device_available() is false in every state of a constructed
\* object: start_stream never sets availability true, and it is false after
\* every stop_stream.  (No statement of the class sets it true, so "until a
\* poll has observed a data frame" never ends the interval.)
C13_NeverAvailableBeforeData ==
    life = "ready" => ~IsDeviceAvailable

\* C13 happens: a session was started, a poll of it returned data, and a
\* stop_stream has been called on it
C13_Witness ==
    /\ life = "ready"
    /\ call.op = "stop" /\ call.pre.state = "Streaming"
    /\ delivered # <<>>
    /\ ~IsDeviceAvailable

\* C17: a destroyed controller has released its socket and context exactly
\* once, whatever was called before; while the controller lives, nothing
\* (no start_stream, stop_stream or process_frames) closes or rebinds the
\* socket.
C17_TeardownClosesExactlyOnce ==
    /\ (life = "deleted" /\ port # None) => closes = 1
    /\ life = "ready" => (closes = 0 /\ port = EphemeralPort)

\* C17 happens: the controller was destroyed after a start and a stop
C17_Witness ==
    /\ life = "deleted" /\ closes = 1
    /\ starts >= 1 /\ stops >= 1

\* C18: a stop_stream called on a Streaming session returns with the
\* termination signal set, availability false and the session Idle.
C18_StopSetsSignalAndFlushes ==
    (call.op = "stop" /\ call.pre.state = "Streaming")
        => /\ ret.raised = "none"
           /\ terminate_event \in events_set
           /\ ~device_available
           /\ SessionState = "Idle"

C20_DataPollOnlyDrains ==
    [][ (/\ pc = "poll" /\ pc' = "idle"
         /\ \A i \in 1..Len(call'.taken) : IsData(call'.taken[i]))
            => /\ Session' = call'.pre
               /\ port' = port
               /\ channel' = <<>> ]_vars

\* C20 happens: a process_frames call on a running session has taken two
\* data messages and has returned them
C20_Witness ==
    /\ PollDone /\ ret.raised = "none"
    /\ call.pre.state = "Streaming"
    /\ Len(call.taken) = 2
    /\ \A i \in 1..Len(call.taken) : IsData(call.taken[i])
    /\ channel = <<>>

\* ------------------------------------------------------- shapes of frames
\* how many data messages one sweep stacks, and how many channels and leads
\* a frame has
MaxT == 3
MaxC == 2
MaxL == 2

\* a frame is a number, a list of C numbers, or C lists of L numbers
FrameShapes ==
    {<<>>} \cup {<<c>> : c \in 1..MaxC}
           \cup {<<c, l>> : c \in 1..MaxC, l \in 1..MaxL}

\* a timestamp is a number, a list of numbers, or a list of lists
TimestampShapes == {<<>>, <<1>>, <<2>>, <<2, 1>>}

\* A process_frames call has just started on a running session, and the
\* queue holds T data messages of one shape.
InitShapes ==
    /\ life = "ready"
    /\ port = EphemeralPort
    /\ closes = 0
    /\ terminate_event = NewEvent(1)
    /\ events_set = {}
    /\ device_process = None
    /\ device_available = FALSE
    /\ \E T \in 1..MaxT, fs \in FrameShapes, tss \in TimestampShapes :
          /\ channel = [t \in 1..T |-> ShapedData(fs, tss, t)]
          /\ sent = T
    /\ pc = "poll"
    /\ frames = <<>>
    /\ timestamps = <<>>
    /\ messages = <<>>
    /\ ret = Running("poll")
    /\ call = Call("poll", Session, <<>>, 0, 0, FALSE)
    /\ starts = 1
    /\ stops = 0
    /\ calls = 2
    /\ stops_at_start = 0
    /\ delivered = <<>>

NextShapes == PollReceive \/ PollReturn

SpecShapes == InitShapes /\ [][NextShapes]_vars

\* the element of the array a at the index idx (counted from 0)
RECURSIVE Offset(_, _)
Offset(shape, idx) ==
    IF shape = <<>> THEN 0
    ELSE idx[1] * Prod(Tail(shape)) + Offset(Tail(shape), Tail(idx))

At(a, idx) == a.data[Offset(a.shape, idx) + 1]

\* C14: the matrix a returning process_frames call hands back, against the
\* stacked array of the frames it took: for a stacked (T, C, L) array it
\* has shape (C, T) and M[c][t] = stacked[t][c][0]; for a stacked (T, C)
\* array it is the transpose; a stacked 1-D array is returned as it is.
C14_ShapeNormalization ==
    (PollDone /\ ret.raised = "none" /\ FramesOf(call.taken) # <<>>) =>
        LET stacked == NpArray(FramesOf(call.taken))
            M       == ret.frames
            T       == stacked.shape[1]
        IN  /\ Ndim(stacked) = 3 =>
                  /\ M.shape = <<stacked.shape[2], T>>
                  /\ \A c \in 0..(stacked.shape[2] - 1), t \in 0..(T - 1) :
                        At(M, <<c, t>>) = At(stacked, <<t, c, 0>>)
            /\ Ndim(stacked) = 2 =>
                  /\ M.shape = <<stacked.shape[2], T>>
                  /\ \A c \in 0..(stacked.shape[2] - 1), t \in 0..(T - 1) :
                        At(M, <<c, t>>) = At(stacked, <<t, c>>)
            /\ Ndim(stacked) < 2 => M = stacked

\* C14 happens: three frames of two channels and two leads were stacked
\* and returned
C14_Witness ==
    /\ PollDone /\ ret.raised = "none"
    /\ NpArray(FramesOf(call.taken)).shape = <<3, 2, 2>>
    /\ ret.frames.shape = <<2, 3>>

\* C15: a process_frames call that takes the data message
\* {t:"d", frame:[[1,2],[3,4]], timestamp:[[100],[101]]} and then the event
\* message {t:"e", message:"fault"} returns the matrix [[1,3],[2,4]], the
\* timestamps [100,101] and the messages ["fault"], and leaves the session
\* Idle.
C15_ExampleScenario ==
    (/\ PollDone /\ call.pre.state = "Streaming"
     /\ Len(call.taken) = 2
     /\ IsData(call.taken[1])
     /\ call.taken[1].frame = Arr(<<2, 2>>, <<1, 2, 3, 4>>)
     /\ call.taken[1].timestamp = Arr(<<2, 1>>, <<100, 101>>)
     /\ IsEvent(call.taken[2]) /\ call.taken[2].message = "fault")
        => /\ ret.raised = "none"
           /\ ret.frames = Arr(<<2, 2>>, <<1, 3, 2, 4>>)
           /\ ret.timestamps = Arr(<<2>>, <<100, 101>>)
           /\ ret.messages = <<"fault">>
           /\ SessionState = "Idle"

\* C16: every batch a process_frames call on a running session returns is
\* a matrix with at least one row (the channels) and as many columns as
\* there are timestamps, also when there are no samples.
C16_BatchKeepsChannelRows ==
    (PollDone /\ call.pre.state = "Streaming" /\ ret.raised = "none")
        => /\ Ndim(ret.frames) = 2
           /\ ret.frames.shape[1] >= 1
           /\ ret.timestamps.shape[1] = ret.frames.shape[2]

\* ------------------------------------------------- a driver that never pauses
\* The driver enqueues one more message whenever the running loop of
\* process_frames has emptied the queue, before the loop's next receive.
\* The message has an unknown tag, so the loop collects nothing from it.
\* These messages are not counted in sent, and the record of the call
\* forgets what it took before, so that a run with them stays in finitely
\* many states.
DriverFlood ==
    /\ life = "ready"
    /\ pc = "poll"
    /\ channel = <<>>
    /\ channel' = <<Wire("x", sent, starts, stops)>>
    /\ call' = [call EXCEPT !.concurrent = TRUE, !.taken = <<>>, !.recvs = 0]
    /\ UNCHANGED <<life, sockVars, objVars, pc, pollVars, ret, histVars>>

\* the messages the driver sends in the runs with a never pausing driver
SweepKinds == {"d_vec", "e", "x"}

NextSweep ==
    \/ \E platform \in {"Windows", "Linux"}, license_global \in BOOLEAN :
          Construct(platform, license_global)
    \/ \E kind \in SweepKinds : DriverSend(kind)
    \/ DriverFlood
    \/ StartStream
    \/ StopStream
    \/ PollBegin
    \/ PollReceive
    \/ PollReturn
    \/ Del

\* The caller's thread is scheduled: inside the loop of process_frames its
\* next receive, whatever it finds, eventually happens.  Nothing is assumed
\* of the driver.
SpecSweep ==
    Init /\ [][NextSweep]_vars /\ WF_vars(PollReceive \/ PollReturn)

=============================================================================
